---- MODULE Spec2Model ----
(***************************************************************************)
(* portal-datastore: the identity and access provisioning service.        *)
(*                                                                         *)
(* src/ds.py   DataStoreAPI, a thin layer over one iRODS session           *)
(* src/main.py the HTTP handlers that call it through `server`             *)
(*                                                                         *)
(* The service keeps no state of its own: the state is the backend's       *)
(* (users, collections, ACLs).  Every handler is a sequence of blocking    *)
(* backend calls; any of them may raise.  A handler is modelled as an      *)
(* operator that threads an execution context through its backend calls,   *)
(* in the order of the code, and stops at the first call that raises.      *)
(***************************************************************************)
EXTENDS Integers, Sequences, FiniteSets, TLC

\* ------------------------------------------------------------------ bounds

\* The number of requests in a run.
MaxOps == 3

\* The number of requests in a run that meet a failing backend call.
MaxFailures == 1

\* --------------------------------------------------------------- constants

ds_zone == "zone"

\* The user names requests are made with (the empty one is rejected by the
\* handlers).
Names == {"alice", "bob"}

NameInputs == Names \cup {""}

\* The username values of a registration request.
RegistrantInputs == {"alice", ""}

\* A path string: absolute or not, and its segments between slashes.
PathStr(abs, segs) == [abs |-> abs, segs |-> segs]

EmptyPath == PathStr(FALSE, <<>>)

\* The irods_path values of a registration request: "", "projectA", "../bob"
\* and "/zone/home/bob".
SubPathInputs ==
    { EmptyPath,
      PathStr(FALSE, <<"projectA">>),
      PathStr(FALSE, <<"..", "bob">>),
      PathStr(TRUE, <<ds_zone, "home", "bob">>) }

\* The path values of a chmod request.
ChmodPathInputs ==
    { EmptyPath,
      PathStr(TRUE, <<ds_zone, "home", "alice">>) }

\* The permission names of a chmod request; "bogus" is in no vocabulary.
PermInputs == {"", "read", "own", "bogus"}

\* irods_user of a registration: None is <<>>, a name n is <<n>>.
None == <<>>

SecondaryInputs == {None, <<"bob">>}

\* ------------------------------------------------------------------- paths

\* irods.path.iRODSPath: an absolute, normalised logical path; "." and empty
\* segments are dropped and ".." removes the segment before it.
RECURSIVE NormSegs(_, _)
NormSegs(segs, acc) ==
    IF segs = <<>> THEN acc
    ELSE LET s == Head(segs) IN
         IF s = "" \/ s = "." THEN NormSegs(Tail(segs), acc)
         ELSE IF s = ".."
              THEN NormSegs(Tail(segs),
                            IF acc = <<>> THEN acc
                            ELSE SubSeq(acc, 1, Len(acc) - 1))
              ELSE NormSegs(Tail(segs), Append(acc, s))

iRODSPath(p) == PathStr(TRUE, NormSegs(p.segs, <<>>))

\* os.path.join(a, b): an absolute b replaces a, otherwise b is appended.
os_path_join(a, b) ==
    IF b.abs THEN b ELSE PathStr(a.abs, a.segs \o b.segs)

\* q is p or lies below p (both normalised segment sequences).
IsPrefix(p, q) == Len(p) <= Len(q) /\ SubSeq(q, 1, Len(p)) = p

\* ----------------------------------------------------------------- backend

VARIABLES backend, last, prev, ops, failures, procs

vars == <<backend, last, prev, ops, failures, procs>>

\* The zone as the service finds it: /zone and /zone/home exist, there is no
\* self-service user and no home collection.
EmptyBackend ==
    [ users   |-> [u \in Names |-> 0],
      colls   |-> { <<ds_zone>>, <<ds_zone, "home">> },
      acl     |-> {},
      inherit |-> {} ]

UserCount(b, u) == IF u \in DOMAIN b.users THEN b.users[u] ELSE 0

\* The permission names the backend declares.
AvailablePermissions == {"read", "own", "inherit"}

\* The execution context of one request: the backend as the request has left
\* it so far, the backend calls issued, the exception propagating (if any),
\* the value the last call returned, and the response once there is one.
\* A request that runs beside others (stepping) is resumed one backend call at
\* a time: hist holds what its calls so far returned or raised, acted says
\* that this resumption has issued its call, yielded that the request has
\* stopped at the next one.
Ctx(b, f) ==
    [ b |-> b, fail |-> f, n |-> 0, log |-> <<>>, err |-> "", ret |-> FALSE,
      status |-> 0, msg |-> "", cause |-> "",
      stepping |-> FALSE, hist |-> <<>>, acted |-> FALSE, yielded |-> FALSE ]

\* The context in which a request that has made the calls of hist is resumed
\* on backend b.
StepCtx(b, hist) == [Ctx(b, 0) EXCEPT !.stepping = TRUE, !.hist = hist]

Entry(call, user, perm, segs, ok) ==
    [ call |-> call, user |-> user, perm |-> perm, path |-> segs, ok |-> ok ]

\* The call is issued on the backend: it raises NetworkError when it is the
\* call the run fails at, raises errName when the backend refuses it, and
\* otherwise leaves the backend as b2 and returns ret.
Issue(x, call, user, perm, segs, accepted, errName, b2, ret) ==
    IF x.fail = x.n + 1
    THEN [x EXCEPT !.n = @ + 1,
                   !.log = Append(@, Entry(call, user, perm, segs, FALSE)),
                   !.err = "NetworkError"]
    ELSE IF ~accepted
    THEN [x EXCEPT !.n = @ + 1,
                   !.log = Append(@, Entry(call, user, perm, segs, FALSE)),
                   !.err = errName]
    ELSE [x EXCEPT !.n = @ + 1,
                   !.log = Append(@, Entry(call, user, perm, segs, TRUE)),
                   !.b = b2,
                   !.ret = ret]

\* A call the request made before it was last suspended: answered with h,
\* what the call returned or raised then.
Answered(x, call, user, perm, segs, h) ==
    [x EXCEPT !.n = @ + 1,
              !.log = Append(@, Entry(call, user, perm, segs, h.err = "")),
              !.err = h.err,
              !.ret = IF h.err = "" THEN h.ret ELSE @]

\* A stepping request keeps what the call it has just issued returned or
\* raised.
Recorded(y) ==
    IF y.stepping
    THEN [y EXCEPT !.acted = TRUE,
                   !.hist = Append(@, [ret |-> y.ret, err |-> y.err])]
    ELSE y

\* One backend call.  In a stepping request a call made before is answered
\* from hist, the first new call is issued on the backend as it is now, and
\* the request stops at the call after it: the backend is free between two
\* calls of a request.
BackendCall(x, call, user, perm, segs, accepted, errName, b2, ret) ==
    IF x.stepping /\ x.acted
    THEN [x EXCEPT !.err = "Yield", !.yielded = TRUE]
    ELSE IF x.stepping /\ x.n < Len(x.hist)
    THEN Answered(x, call, user, perm, segs, x.hist[x.n + 1])
    ELSE Recorded(Issue(x, call, user, perm, segs, accepted, errName, b2, ret))

Raised(x) == x.err # ""

\* ------------------------------------------------ the iRODS session's calls

\* session.users.get(name, zone): raises UserDoesNotExist for no such user.
users_get(x, u) ==
    BackendCall(x, "users.get", u, "", <<>>,
                UserCount(x.b, u) > 0, "UserDoesNotExist", x.b, TRUE)

\* session.users.create(name, type): the catalog refuses a name it holds.
users_create(x, u) ==
    BackendCall(x, "users.create", u, "", <<>>,
                UserCount(x.b, u) = 0, "CATALOG_ALREADY_HAS_ITEM_BY_THAT_NAME",
                [x.b EXCEPT !.users[u] = @ + 1], TRUE)

\* iRODSUser.remove(): the identity goes, and with it the grants made to it.
user_remove(x, u) ==
    BackendCall(x, "user.remove", u, "", <<>>,
                UserCount(x.b, u) > 0, "UserDoesNotExist",
                [x.b EXCEPT !.users[u] = 0,
                            !.acl = {g \in @ : g[2] # u}],
                TRUE)

\* session.data_objects.exists(path): the service creates no data object and
\* the zone starts without any.
data_objects_exists(x, p) ==
    BackendCall(x, "data_objects.exists", "", "", iRODSPath(p).segs,
                TRUE, "", x.b, FALSE)

\* session.collections.exists(path)
collections_exists(x, p) ==
    BackendCall(x, "collections.exists", "", "", iRODSPath(p).segs,
                TRUE, "", x.b, iRODSPath(p).segs \in x.b.colls)

\* session.collections.create(path): creates the collection and the missing
\* collections above it (recurse=True is the client's default).
collections_create(x, p) ==
    LET segs == iRODSPath(p).segs IN
    BackendCall(x, "collections.create", "", "", segs,
                segs # <<>>, "SYS_INVALID_INPUT_PARAM",
                [x.b EXCEPT !.colls =
                    @ \cup { SubSeq(segs, 1, k) : k \in 1..Len(segs) }],
                TRUE)

\* session.collections.remove(path, force=True, recurse=True): the collection
\* and everything below it go, with their ACLs.
collections_remove(x, p) ==
    LET segs == iRODSPath(p).segs IN
    BackendCall(x, "collections.remove", "", "", segs,
                segs \in x.b.colls, "CollectionDoesNotExist",
                [x.b EXCEPT !.colls   = {c \in @ : ~IsPrefix(segs, c)},
                            !.acl     = {g \in @ : ~IsPrefix(segs, g[1])},
                            !.inherit = {c \in @ : ~IsPrefix(segs, c)}],
                TRUE)

\* session.acls.set(iRODSAccess(permission, path, user)): "inherit" sets the
\* collection's inheritance flag whatever the user name; any other name sets
\* the user's access level on the path, replacing the level it had.  The
\* backend refuses a name outside its vocabulary, a path that does not exist
\* and a user it does not know.
acls_set(x, u, perm, p) ==
    LET segs == iRODSPath(p).segs IN
    IF perm \notin AvailablePermissions
    THEN BackendCall(x, "acls.set", u, perm, segs,
                     FALSE, "CAT_INVALID_ARGUMENT", x.b, FALSE)
    ELSE IF segs \notin x.b.colls
    THEN BackendCall(x, "acls.set", u, perm, segs,
                     FALSE, "CAT_UNKNOWN_COLLECTION", x.b, FALSE)
    ELSE IF perm = "inherit"
    THEN BackendCall(x, "acls.set", u, perm, segs, TRUE, "",
                     [x.b EXCEPT !.inherit = @ \cup {segs}], TRUE)
    ELSE BackendCall(x, "acls.set", u, perm, segs,
                     UserCount(x.b, u) > 0, "CAT_INVALID_USER",
                     [x.b EXCEPT !.acl =
                         {g \in @ : ~(g[1] = segs /\ g[2] = u)}
                             \cup {<<segs, u, perm>>}],
                     TRUE)

\* ------------------------------------------------------ DataStoreAPI (ds.py)

\* DataStoreAPI.home_directory: a pure derivation.
home_directory(u) == iRODSPath(PathStr(TRUE, <<ds_zone, "home", u>>))

\* Statement after statement: an exception raised by x propagates, otherwise
\* the code goes on as F from what x left.
AndThen(x, F(_)) == IF Raised(x) THEN x ELSE F(x)

\* try: x / except: H.
OnError(x, H(_)) == IF Raised(x) THEN H(x) ELSE x

\* DataStoreAPI.path_exists: data object or collection.
server_path_exists(x, p) ==
    AndThen(data_objects_exists(x, iRODSPath(p)), LAMBDA y :
    IF y.ret THEN y ELSE collections_exists(y, iRODSPath(p)))

\* DataStoreAPI.user_exists: UserDoesNotExist means False, anything else
\* propagates.
server_user_exists(x, u) ==
    LET y == users_get(x, u) IN
    IF y.err = "UserDoesNotExist"
    THEN [y EXCEPT !.err = "", !.ret = FALSE]
    ELSE y

\* DataStoreAPI.get_user
server_get_user(x, u) == users_get(x, u)

\* DataStoreAPI.create_user
server_create_user(x, u) == users_create(x, u)

\* delete_home as it would be without the check that the home exists.
server_delete_home_unchecked(x, u) ==
    collections_remove(x, home_directory(u))

\* DataStoreAPI.delete_home
server_delete_home(x, u) ==
    AndThen(collections_exists(x, home_directory(u)), LAMBDA y :
    IF ~y.ret THEN y ELSE collections_remove(y, home_directory(u)))

\* delete_user as it would be if it removed the home directory as well.
server_delete_user_and_home(x, u) ==
    AndThen(users_get(x, u), LAMBDA y :
    AndThen(user_remove(y, u), LAMBDA z :
    server_delete_home(z, u)))

\* DataStoreAPI.delete_user: get, then remove.
server_delete_user(x, u) ==
    AndThen(users_get(x, u), LAMBDA y : user_remove(y, u))

\* DataStoreAPI.chmod: no validation of its own.
server_chmod(x, u, perm, p) == acls_set(x, u, perm, iRODSPath(p))

\* ensure_user_exists as it would be if it verified the home directory of a
\* user that exists already.
server_ensure_user_exists_verify_home(x, u) ==
    AndThen(server_user_exists(x, u), LAMBDA x1 :
    AndThen(IF x1.ret THEN server_get_user(x1, u)
            ELSE server_create_user(x1, u), LAMBDA x2 :
    AndThen(server_path_exists(x2, home_directory(u)), LAMBDA x3 :
    IF x3.ret THEN x3
    ELSE
    AndThen(collections_create(x3, home_directory(u)), LAMBDA x4 :
    server_chmod(x4, u, "own", home_directory(u))))))

\* ensure_user_exists as it would be if it removed the user again when the
\* home directory cannot be set up.
server_ensure_user_exists_rollback(x, u) ==
    AndThen(server_user_exists(x, u), LAMBDA x1 :
    IF x1.ret THEN server_get_user(x1, u)
    ELSE
    AndThen(server_create_user(x1, u), LAMBDA x2 :
    OnError(
        AndThen(server_path_exists(x2, home_directory(u)), LAMBDA x3 :
        IF x3.ret THEN x3
        ELSE
        AndThen(collections_create(x3, home_directory(u)), LAMBDA x4 :
        server_chmod(x4, u, "own", home_directory(u)))),
        LAMBDA x5 :
        [user_remove([x5 EXCEPT !.err = ""], u) EXCEPT !.err = x5.err])))

\* DataStoreAPI.ensure_user_exists
server_ensure_user_exists(x, u) ==
    AndThen(server_user_exists(x, u), LAMBDA x1 :
    IF x1.ret THEN server_get_user(x1, u)
    ELSE
    AndThen(server_create_user(x1, u), LAMBDA x2 :
    AndThen(server_path_exists(x2, home_directory(u)), LAMBDA x3 :
    IF x3.ret THEN x3
    ELSE
    AndThen(collections_create(x3, home_directory(u)), LAMBDA x4 :
    server_chmod(x4, u, "own", home_directory(u))))))

\* ------------------------------------------------------ handlers (main.py)

\* raise HTTPException(code, detail): http_exception_handler answers with the
\* code and the detail.  `cause` is the text of the exception the detail
\* embeds, if it embeds one.
HTTPException(x, code, detail, cause) ==
    [x EXCEPT !.err = "HTTPException", !.status = code, !.msg = detail,
              !.cause = cause]

\* A handler that returns: status_code=200.
Return(x) == [x EXCEPT !.status = 200]

\* exception_handling_middleware: any other exception becomes a 500 whose
\* content is str(e) and nothing else.
exception_handling_middleware(x) ==
    IF Raised(x) /\ x.status = 0
    THEN [x EXCEPT !.status = 500, !.msg = "", !.cause = x.err]
    ELSE x

\* create_user as it would be if an existing user were answered with success.
create_user_existing_ok(x, username) ==
    IF username = ""
    THEN HTTPException(x, 400, "username must not be empty", "")
    ELSE
    AndThen(server_user_exists(x, username), LAMBDA x1 :
    IF x1.ret THEN Return(x1)
    ELSE
    AndThen(server_create_user(x1, username), LAMBDA x2 : Return(x2)))

\* POST /users/{username}
create_user(x, username) ==
    IF username = ""
    THEN HTTPException(x, 400, "username must not be empty", "")
    ELSE
    AndThen(server_user_exists(x, username), LAMBDA x1 :
    IF x1.ret THEN HTTPException(x1, 400, "user exists", "")
    ELSE
    AndThen(server_create_user(x1, username), LAMBDA x2 : Return(x2)))

\* DELETE /users/{username}
delete_user(x, username) ==
    IF username = ""
    THEN HTTPException(x, 400, "username must not be empty", "")
    ELSE
    AndThen(server_delete_user(x, username), LAMBDA x1 : Return(x1))

\* DELETE /users/{username}/home
delete_home(x, username) ==
    IF username = ""
    THEN HTTPException(x, 400, "username must not be empty", "")
    ELSE
    AndThen(server_delete_home(x, username), LAMBDA x1 : Return(x1))

\* DataStoreAPI.list_available_permissions: the vocabulary, fetched live.
server_list_available_permissions(x) ==
    BackendCall(x, "available_permissions", "", "", <<>>, TRUE, "", x.b, TRUE)

\* chmod as it would be without the check of the permission name.
chmod_unchecked_permission(x, username, permission, path) ==
    IF username = ""
    THEN HTTPException(x, 400, "username must be set in request body", "")
    ELSE IF path = EmptyPath
    THEN HTTPException(x, 400, "path must be set in request body", "")
    ELSE IF permission = ""
    THEN HTTPException(x, 400, "permission must be set in request body", "")
    ELSE
    AndThen(server_user_exists(x, username), LAMBDA x1 :
    IF ~x1.ret THEN HTTPException(x1, 400, "username does not exist", "")
    ELSE
    AndThen(server_path_exists(x1, path), LAMBDA x3 :
    IF ~x3.ret THEN HTTPException(x3, 400, "path does not exist", "")
    ELSE
    AndThen(server_chmod(x3, username, permission, path), LAMBDA x4 :
    Return(x4))))

\* POST /path/chmod
chmod(x, username, permission, path) ==
    IF username = ""
    THEN HTTPException(x, 400, "username must be set in request body", "")
    ELSE IF path = EmptyPath
    THEN HTTPException(x, 400, "path must be set in request body", "")
    ELSE IF permission = ""
    THEN HTTPException(x, 400, "permission must be set in request body", "")
    ELSE
    AndThen(server_user_exists(x, username), LAMBDA x1 :
    IF ~x1.ret THEN HTTPException(x1, 400, "username does not exist", "")
    ELSE
    AndThen(server_list_available_permissions(x1), LAMBDA x2 :
    IF permission \notin AvailablePermissions
    THEN HTTPException(x2, 400, "permission does not exist", "")
    ELSE
    AndThen(server_path_exists(x2, path), LAMBDA x3 :
    IF ~x3.ret THEN HTTPException(x3, 400, "path does not exist", "")
    ELSE
    AndThen(server_chmod(x3, username, permission, path), LAMBDA x4 :
    Return(x4)))))

\* registration_steps as it would be with the owner's grant made before the
\* inherit grant.
registration_steps_owner_first(x, username, irods_path, irods_user) ==
    LET full_path == os_path_join(home_directory(username), irods_path) IN
    AndThen(OnError(server_ensure_user_exists(x, username), LAMBDA e :
                    HTTPException(e, 500, "Failed to prepare user", e.err)),
            LAMBDA x1 :
    AndThen(server_path_exists(x1, full_path), LAMBDA x2 :
    AndThen(IF x2.ret THEN x2 ELSE collections_create(x2, full_path),
            LAMBDA x3 :
    AndThen(server_chmod(x3, username, "own", full_path), LAMBDA x4 :
    AndThen(server_chmod(x4, "", "inherit", full_path), LAMBDA x5 :
    AndThen(IF irods_user = None THEN x5
            ELSE server_chmod(x5, irods_user[1], "own", full_path),
            LAMBDA x6 :
    Return(x6)))))))

\* service_registration past its two checks of the request: ensure the user,
\* create the path if it is missing, then the grants.
registration_steps(x, username, irods_path, irods_user) ==
    LET full_path == os_path_join(home_directory(username), irods_path) IN
    AndThen(OnError(server_ensure_user_exists(x, username), LAMBDA e :
                    HTTPException(e, 500, "Failed to prepare user", e.err)),
            LAMBDA x1 :
    AndThen(server_path_exists(x1, full_path), LAMBDA x2 :
    AndThen(IF x2.ret THEN x2 ELSE collections_create(x2, full_path),
            LAMBDA x3 :
    AndThen(server_chmod(x3, "", "inherit", full_path), LAMBDA x4 :
    AndThen(server_chmod(x4, username, "own", full_path), LAMBDA x5 :
    AndThen(IF irods_user = None THEN x5
            ELSE server_chmod(x5, irods_user[1], "own", full_path),
            LAMBDA x6 :
    Return(x6)))))))

\* service_registration as it would be without the check of irods_path.
service_registration_unchecked_path(x, username, irods_path, irods_user) ==
    IF username = ""
    THEN HTTPException(x, 400, "username must not be empty", "")
    ELSE registration_steps(x, username, irods_path, irods_user)

\* POST /services/register
service_registration(x, username, irods_path, irods_user) ==
    IF username = ""
    THEN HTTPException(x, 400, "username must not be empty", "")
    ELSE IF irods_path = EmptyPath
    THEN HTTPException(x, 400, "irods_path must not be empty", "")
    ELSE registration_steps(x, username, irods_path, irods_user)

\* --------------------------------------------------------- the state machine

\* `last` is the request served last: what was asked, the backend before it,
\* the backend calls it issued and the response.  `prev` is the request before
\* it when that one was the same operation on the same user and path, and
\* NoCall otherwise.
Call(op, user, perm, path, sec, f, pre, r) ==
    [ op |-> op, user |-> user, perm |-> perm, path |-> path, sec |-> sec,
      fail |-> f, pre |-> pre, status |-> r.status, msg |-> r.msg,
      cause |-> r.cause, log |-> r.log ]

NoCall ==
    Call("none", "", "", EmptyPath, None, 0, EmptyBackend, Ctx(EmptyBackend, 0))

\* The requests in flight beside each other, for the interleaved runs: each
\* is idle, running (with the request, the backend it arrived at, the results
\* of its calls so far and the calls themselves) or done (with its response).
Procs == {"p1", "p2"}

Request(op, user, perm, path, sec) ==
    [ op |-> op, user |-> user, perm |-> perm, path |-> path, sec |-> sec ]

Proc(state, req, pre, r) ==
    [ state |-> state, req |-> req, pre |-> pre, hist |-> r.hist,
      log |-> r.log, status |-> r.status, msg |-> r.msg, cause |-> r.cause ]

Idle ==
    Proc("idle", Request("none", "", "", EmptyPath, None), EmptyBackend,
         Ctx(EmptyBackend, 0))

Init ==
    /\ backend = EmptyBackend
    /\ last = NoCall
    /\ prev = NoCall
    /\ ops = 0
    /\ failures = 0
    /\ procs = [p \in Procs |-> Idle]

\* Any backend call of a request may fail (a transport error): f = 0 is the run
\* in which none does, f = k the run in which the k-th call raises.
FailPoints(r) ==
    IF ops < MaxOps
    THEN IF failures < MaxFailures THEN 0..r.n ELSE {0}
    ELSE {}

\* The request ran to its response r.
Serve(op, user, perm, path, sec, f, r) ==
    /\ ops < MaxOps
    /\ ops' = ops + 1
    /\ failures' = IF f = 0 THEN failures ELSE failures + 1
    /\ backend' = r.b
    /\ last' = Call(op, user, perm, path, sec, f, backend, r)
    /\ prev' = IF last.op = op /\ last.user = user /\ last.path = path
                THEN last ELSE NoCall
    /\ UNCHANGED procs

\* A direct call of a DataStoreAPI method: its outcome is the exception it
\* raises, or none.
Outcome(x) == [x EXCEPT !.cause = x.err]

CreateUser ==
    \E u \in NameInputs :
        \E f \in FailPoints(create_user(Ctx(backend, 0), u)) :
            Serve("create_user", u, "", EmptyPath, None, f,
                  exception_handling_middleware(
                      create_user(Ctx(backend, f), u)))

DeleteUser ==
    \E u \in NameInputs :
        \E f \in FailPoints(delete_user(Ctx(backend, 0), u)) :
            Serve("delete_user", u, "", EmptyPath, None, f,
                  exception_handling_middleware(
                      delete_user(Ctx(backend, f), u)))

DeleteHome ==
    \E u \in NameInputs :
        \E f \in FailPoints(delete_home(Ctx(backend, 0), u)) :
            Serve("delete_home", u, "", EmptyPath, None, f,
                  exception_handling_middleware(
                      delete_home(Ctx(backend, f), u)))

Chmod ==
    \E u \in NameInputs, perm \in PermInputs, p \in ChmodPathInputs :
        \E f \in FailPoints(chmod(Ctx(backend, 0), u, perm, p)) :
            Serve("chmod", u, perm, p, None, f,
                  exception_handling_middleware(
                      chmod(Ctx(backend, f), u, perm, p)))

ServiceRegistration ==
    \E u \in RegistrantInputs, p \in SubPathInputs, sec \in SecondaryInputs :
        \E f \in FailPoints(service_registration(Ctx(backend, 0), u, p, sec)) :
            Serve("service_registration", u, "", p, sec, f,
                  exception_handling_middleware(
                      service_registration(Ctx(backend, f), u, p, sec)))

\* DataStoreAPI.ensure_user_exists called on its own.
EnsureUserExists ==
    \E u \in Names :
        \E f \in FailPoints(server_ensure_user_exists(Ctx(backend, 0), u)) :
            Serve("ensure_user_exists", u, "", EmptyPath, None, f,
                  Outcome(server_ensure_user_exists(Ctx(backend, f), u)))

\* DataStoreAPI.create_user called on its own.
ServerCreateUser ==
    \E u \in Names :
        \E f \in FailPoints(server_create_user(Ctx(backend, 0), u)) :
            Serve("server.create_user", u, "", EmptyPath, None, f,
                  Outcome(server_create_user(Ctx(backend, f), u)))

\* DataStoreAPI.chmod called on its own.
ServerChmod ==
    \E u \in Names, perm \in {"read", "bogus"},
       p \in ChmodPathInputs \ {EmptyPath} :
        \E f \in FailPoints(server_chmod(Ctx(backend, 0), u, perm, p)) :
            Serve("server.chmod", u, perm, p, None, f,
                  Outcome(server_chmod(Ctx(backend, f), u, perm, p)))

Next ==
    \/ CreateUser
    \/ DeleteUser
    \/ DeleteHome
    \/ Chmod
    \/ ServiceRegistration
    \/ EnsureUserExists
    \/ ServerCreateUser
    \/ ServerChmod

Spec == Init /\ [][Next]_vars

\* ------------------------------------------------- requests beside each other

\* The handlers are plain functions that the server runs on its worker
\* threads, all on the one `server` object; none takes a lock.  Each backend
\* call is one atomic step and the calls of two requests interleave freely.

\* The requests made beside each other, all about alice.
ConcRequests ==
    { Request("create_user", "alice", "", EmptyPath, None),
      Request("delete_home", "alice", "", EmptyPath, None),
      Request("chmod", "alice", "read",
              PathStr(TRUE, <<ds_zone, "home", "alice">>), None),
      Request("service_registration", "alice", "",
              PathStr(FALSE, <<"projectA">>), None) }

\* The handler of request q, run in context x up to its response.
Handle(q, x) ==
    exception_handling_middleware(
        IF q.op = "create_user" THEN create_user(x, q.user)
        ELSE IF q.op = "delete_home" THEN delete_home(x, q.user)
        ELSE IF q.op = "chmod" THEN chmod(x, q.user, q.perm, q.path)
        ELSE service_registration(x, q.user, q.path, q.sec))

\* The zone with alice provisioned by ensure_user_exists.
Provisioned == server_ensure_user_exists(Ctx(EmptyBackend, 0), "alice").b

ConcInit ==
    /\ backend \in {EmptyBackend, Provisioned}
    /\ last = NoCall
    /\ prev = NoCall
    /\ ops = 0
    /\ failures = 0
    /\ procs = [p \in Procs |-> Idle]

\* A request arrives.
Receive(p) ==
    /\ procs[p].state = "idle"
    /\ \E q \in ConcRequests :
           procs' = [procs EXCEPT ![p] =
                        Proc("running", q, backend, Ctx(backend, 0))]
    /\ UNCHANGED <<backend, last, prev, ops, failures>>

\* The handlers as they would be if each held one lock from its first backend
\* call to its response.
MayProceed_exclusive(p) ==
    /\ procs[p].state = "running"
    /\ \A q \in Procs \ {p} :
          ~(procs[q].state = "running" /\ procs[q].hist # <<>>)

\* No handler waits for another: a request that has a backend call to make
\* may make it.
MayProceed(p) == procs[p].state = "running"

\* Request p makes its next backend call, or answers if it has none to make.
StepProc(p) ==
    /\ MayProceed(p)
    /\ \E r \in {Handle(procs[p].req, StepCtx(backend, procs[p].hist))} :
          /\ backend' = r.b
          /\ procs' = [procs EXCEPT ![p] =
                          IF r.yielded
                          THEN [@ EXCEPT !.hist = r.hist, !.log = r.log]
                          ELSE Proc("done", @.req, @.pre, r)]
    /\ UNCHANGED <<last, prev, ops, failures>>

ConcNext ==
    \/ \E p \in Procs : Receive(p)
    \/ \E p \in Procs : StepProc(p)

SpecConc == ConcInit /\ [][ConcNext]_vars

\* ------------------------------------------------------------------ claims

HomeSegs(u) == home_directory(u).segs

Owns(b, u, segs) == <<segs, u, "own">> \in b.acl

\* The request c was answered with success (a handler's 200, or a direct call
\* that raised nothing).
Succeeded(c) ==
    /\ c.op # "none"
    /\ \/ c.status = 200
       \/ c.status = 0 /\ c.cause = ""

\* c and d are the same operation with the same arguments.
SameRequest(c, d) ==
    /\ c.op = d.op /\ c.user = d.user /\ c.path = d.path
    /\ c.perm = d.perm /\ c.sec = d.sec

\* C1: for a user u that does not exist, two consecutive calls of
\* ensure_user_exists(u) leave exactly one user u and the home collection of u
\* with u's 'own' grant, and the second call succeeds and changes nothing.
C1_EnsureTwice ==
    \A u \in Names :
        ( /\ last.op = "ensure_user_exists" /\ last.user = u
          /\ prev.op = "ensure_user_exists"
          /\ prev.fail = 0 /\ last.fail = 0
          /\ UserCount(prev.pre, u) = 0 )
        => /\ Succeeded(last)
           /\ backend = last.pre
           /\ UserCount(backend, u) = 1
           /\ HomeSegs(u) \in backend.colls
           /\ Owns(backend, u, HomeSegs(u))

\* The path a registration request resolves to.
FullSegs(c) == iRODSPath(os_path_join(home_directory(c.user), c.path)).segs

\* C2: registering twice with the same username and sub-path ends both times
\* in the same backend state, without error on the second call: the user
\* exists, the home exists and is owned by the user, the sub-path exists, has
\* the inherit default and is owned by the user; a further registration with
\* a secondary user adds that user's 'own' grant and keeps the primary's.
C2_RegisterTwice ==
    ( /\ last.op = "service_registration"
      /\ prev.op = "service_registration"
      /\ prev.fail = 0 /\ last.fail = 0
      /\ Succeeded(prev) )
    => /\ prev.sec = last.sec
          => /\ Succeeded(last)
             /\ backend = last.pre
             /\ UserCount(backend, last.user) = 1
             /\ HomeSegs(last.user) \in backend.colls
             /\ Owns(backend, last.user, HomeSegs(last.user))
             /\ FullSegs(last) \in backend.colls
             /\ FullSegs(last) \in backend.inherit
             /\ Owns(backend, last.user, FullSegs(last))
       /\ (last.sec # None /\ Succeeded(last))
          => /\ Owns(backend, last.sec[1], FullSegs(last))
             /\ Owns(backend, last.user, FullSegs(last))

\* C3: in every reachable state, the home collection of an existing user, if
\* it exists, is owned by that user.
C3_HomeOwned ==
    \A u \in Names :
        (UserCount(backend, u) > 0 /\ HomeSegs(u) \in backend.colls)
        => Owns(backend, u, HomeSegs(u))

\* The backend calls that create a collection or set an ACL.
Mutating == {"collections.create", "acls.set"}

\* C4: service_registration creates no collection and sets no ACL outside the
\* subtree of the user's home directory.
C4_StaysInHome ==
    last.op = "service_registration"
    => \A i \in DOMAIN last.log :
           (last.log[i].call \in Mutating /\ last.log[i].ok)
           => IsPrefix(HomeSegs(last.user), last.log[i].path)

C6_EmptyRejected ==
    ( /\ last.op = "service_registration"
      /\ last.user = "" \/ last.path = EmptyPath )
    => /\ last.status = 400
       /\ last.log = <<>>
       /\ backend = last.pre

C6_Witness ==
    /\ last.op = "service_registration"
    /\ last.user = "alice" /\ last.path = EmptyPath
    /\ last.status = 400
    /\ UserCount(backend, "alice") = 0

\* The response c reports that the user exists already.
Conflict(c) ==
    \/ c.status = 400 /\ c.msg = "user exists"
    \/ c.cause = "CATALOG_ALREADY_HAS_ITEM_BY_THAT_NAME"

\* C7: creating user u a second time, with no deletion in between, does not
\* report success, surfaces a conflict (unless the backend call itself fails)
\* and leaves exactly one user u.
C7_DoubleCreate ==
    ( /\ last.op \in {"create_user", "server.create_user"}
      /\ prev.op = last.op
      /\ Succeeded(prev) )
    => /\ ~Succeeded(last)
       /\ last.fail = 0 => Conflict(last)
       /\ UserCount(backend, last.user) = 1

C7_Witness ==
    /\ last.op = "create_user" /\ prev.op = "create_user"
    /\ Succeeded(prev)
    /\ last.status = 400 /\ last.msg = "user exists"

\* C8: whenever service_registration fails partway, the error returned wraps
\* the underlying cause and says which step failed.
C8_StepIdentified ==
    (last.op = "service_registration" /\ last.status = 500)
    => /\ last.cause # ""
       /\ last.msg # ""

\* The request c served from the state it found, no backend call failing.
CleanRun(c) ==
    IF c.op = "ensure_user_exists"
    THEN Outcome(server_ensure_user_exists(Ctx(c.pre, 0), c.user))
    ELSE exception_handling_middleware(
             service_registration(Ctx(c.pre, 0), c.user, c.path, c.sec))

\* C9: a call of ensure_user_exists or service_registration that failed at a
\* backend step and is repeated with the same arguments, the backend no longer
\* failing, succeeds and ends in the state a single call that never failed
\* would have reached.
C9_RetrySafe ==
    ( /\ last.op \in {"ensure_user_exists", "service_registration"}
      /\ SameRequest(prev, last)
      /\ prev.fail > 0 /\ last.fail = 0
      /\ CleanRun(prev).status \in {0, 200} /\ CleanRun(prev).err = "" )
    => /\ Succeeded(last)
       /\ backend = CleanRun(prev).b

\* C10: delete_user on an existing user removes the identity only: every
\* collection that existed before the call, the home included, still exists.
C10_DeleteUserKeepsCollections ==
    (last.op = "delete_user" /\ Succeeded(last))
    => /\ UserCount(last.pre, last.user) = 1
       /\ UserCount(backend, last.user) = 0
       /\ backend.colls = last.pre.colls
       /\ backend.inherit = last.pre.inherit

C10_Witness ==
    /\ last.op = "delete_user" /\ Succeeded(last)
    /\ HomeSegs(last.user) \in last.pre.colls
    /\ HomeSegs(last.user) \in backend.colls

\* C11: delete_home(u) for a user whose home collection does not exist
\* completes without error and leaves the backend unchanged; when the home
\* exists it is removed with everything below it, and a second delete_home(u)
\* right after is a no-op.
C11_DeleteHome ==
    ( /\ last.op = "delete_home" /\ last.user # "" /\ last.fail = 0 )
    => /\ Succeeded(last)
       /\ HomeSegs(last.user) \notin last.pre.colls => backend = last.pre
       /\ \A c \in backend.colls : ~IsPrefix(HomeSegs(last.user), c)
       /\ \A c \in last.pre.colls :
              ~IsPrefix(HomeSegs(last.user), c) => c \in backend.colls
       /\ backend.users = last.pre.users
       /\ (prev.op = "delete_home" /\ Succeeded(prev)) => backend = last.pre

C11_Witness ==
    /\ last.op = "delete_home" /\ prev.op = "delete_home"
    /\ Succeeded(prev) /\ Succeeded(last)
    /\ HomeSegs(last.user) \in prev.pre.colls
    /\ HomeSegs(last.user) \notin last.pre.colls
    /\ backend = last.pre

\* The operations that are HTTP handlers.
Handlers ==
    {"create_user", "delete_user", "delete_home", "chmod",
     "service_registration"}

\* C12: a failure caused by the caller's input (an empty identifier, an
\* unknown permission name, a user or path that does not exist) is answered
\* with a client error, never with the server error a backend failure gets:
\* a handler that fails while no backend call fails answers 400.
C12_InputErrorsAreClientErrors ==
    (last.op \in Handlers /\ last.fail = 0 /\ ~Succeeded(last))
    => last.status = 400

\* C13: when user u exists, ensure_user_exists(u) returns the user and mutates
\* nothing, whatever the state of u's home: no creating or granting call is
\* issued and users, collections and ACLs are unchanged.
C13_ExistingUserUntouched ==
    ( /\ last.op = "ensure_user_exists"
      /\ UserCount(last.pre, last.user) > 0 )
    => /\ backend = last.pre
       /\ \A i \in DOMAIN last.log : last.log[i].call = "users.get"
       /\ last.fail = 0 => Succeeded(last)

C13_Witness ==
    /\ last.op = "ensure_user_exists" /\ Succeeded(last)
    /\ UserCount(last.pre, last.user) > 0
    /\ HomeSegs(last.user) \notin last.pre.colls
    /\ backend = last.pre

\* What a backend call was: its name and arguments.
Sig(e) == <<e.call, e.user, e.perm, e.path>>

\* The part of the registration request c that ensure_user_exists is.
EnsureRun(c) == server_ensure_user_exists(Ctx(c.pre, c.fail), c.user)

\* The backend calls of the registration request c after ensure_user_exists,
\* as the claim orders them.
StepsAfterEnsure(c) ==
    LET full == FullSegs(c) IN
    << <<"data_objects.exists", "", "", full>>,
       <<"collections.exists", "", "", full>> >>
    \o (IF full \in EnsureRun(c).b.colls THEN <<>>
        ELSE << <<"collections.create", "", "", full>> >>)
    \o << <<"acls.set", "", "inherit", full>>,
          <<"acls.set", c.user, "own", full>> >>
    \o (IF c.sec = None THEN <<>>
        ELSE << <<"acls.set", c.sec[1], "own", full>> >>)

\* C14: every execution of service_registration runs its steps in this order:
\* ensure the user, create the sub-path only if it does not exist, the inherit
\* grant for the empty principal, the primary user's 'own' grant, then the
\* secondary user's 'own' grant only if one was supplied; a run that fails
\* stops within that order, and no grant is applied to the sub-path before it
\* exists.
C14_StepOrder ==
    ( /\ last.op = "service_registration"
      /\ last.user # "" /\ last.path # EmptyPath )
    => LET e    == EnsureRun(last)
           rest == SubSeq(last.log, e.n + 1, Len(last.log))
           want == StepsAfterEnsure(last)
       IN
       /\ Len(last.log) >= e.n
       /\ SubSeq(last.log, 1, e.n) = e.log
       /\ Raised(e) => rest = <<>>
       /\ Len(rest) <= Len(want)
       /\ \A i \in 1..Len(rest) : Sig(rest[i]) = want[i]
       /\ Succeeded(last) => Len(rest) = Len(want)
       /\ \A i \in DOMAIN last.log :
              ( /\ last.log[i].call = "acls.set" /\ last.log[i].ok
                /\ last.log[i].path = FullSegs(last) )
              => \/ FullSegs(last) \in last.pre.colls
                 \/ \E j \in 1..(i - 1) :
                        /\ last.log[j].call = "collections.create"
                        /\ last.log[j].ok
                        /\ IsPrefix(FullSegs(last), last.log[j].path)

C14_Witness ==
    /\ last.op = "service_registration" /\ Succeeded(last)
    /\ last.sec # None
    /\ UserCount(last.pre, last.user) = 0
    /\ FullSegs(last) \notin last.pre.colls
    /\ Len(last.log) = 12

\* The backend after the backend call e, issued on backend b, took effect.
Effect(b, e) ==
    LET x == Ctx(b, 0)
        p == PathStr(TRUE, e.path)
    IN
    IF ~e.ok THEN b
    ELSE IF e.call = "users.create" THEN users_create(x, e.user).b
    ELSE IF e.call = "user.remove" THEN user_remove(x, e.user).b
    ELSE IF e.call = "collections.create" THEN collections_create(x, p).b
    ELSE IF e.call = "collections.remove" THEN collections_remove(x, p).b
    ELSE IF e.call = "acls.set" THEN acls_set(x, e.user, e.perm, p).b
    ELSE b

\* The backend after the calls of log, in order, issued from backend b.
RECURSIVE Replay(_, _)
Replay(b, log) ==
    IF log = <<>> THEN b ELSE Replay(Effect(b, Head(log)), Tail(log))

\* C15: when the k-th backend call of ensure_user_exists or
\* service_registration fails, no later call is issued and nothing done
\* before is undone: the calls are the first k of the run without failure and
\* the backend is what the first k-1 of them produced.
C15_NoRollback ==
    ( /\ last.op \in {"ensure_user_exists", "service_registration"}
      /\ last.fail > 0 )
    => LET k     == last.fail
           clean == CleanRun(last).log
       IN
       /\ ~Succeeded(last)
       /\ Len(last.log) = k
       /\ ~last.log[k].ok
       /\ Sig(last.log[k]) = Sig(clean[k])
       /\ \A i \in 1..(k - 1) : last.log[i] = clean[i]
       /\ backend = Replay(last.pre, SubSeq(last.log, 1, k - 1))

C15_Witness ==
    /\ last.op = "service_registration" /\ last.fail = 6
    /\ UserCount(last.pre, last.user) = 0
    /\ UserCount(backend, last.user) = 1
    /\ HomeSegs(last.user) \notin last.pre.colls
    /\ HomeSegs(last.user) \in backend.colls
    /\ ~Owns(backend, last.user, HomeSegs(last.user))

\* ---------------------------------------- claims on requests beside each other

\* Request p has issued its i-th call right after its own call `check` on
\* the same path.
After(p, i, check) ==
    /\ i > 1
    /\ procs[p].log[i - 1].call = check
    /\ procs[p].log[i - 1].path = procs[p].log[i].path

\* Some request other than p has issued `call` for user u on path segs, and
\* the backend carried it out.
DoneByOther(p, call, u, segs) ==
    \E q \in Procs \ {p} : \E j \in DOMAIN procs[q].log :
        /\ procs[q].log[j].call = call
        /\ procs[q].log[j].ok
        /\ procs[q].log[j].user = u
        /\ procs[q].log[j].path = segs

\* C16: the check-then-act sequences are not atomic.  A request between its
\* check and its act excludes nobody: every other request that is running may
\* make its next backend call (MayProceed is all that StepProc waits for).  A request acts on its own check alone: it
\* issues users.create right after its users.get found no such user, and
\* collections.create right after its collections.exists on that path,
\* whatever the backend holds by then; and when the backend refuses such an
\* act (no user to create, no collection to set the grant on) although the
\* check has passed, another request has created the user or removed the
\* collection in between.
C16_CheckThenActNotAtomic ==
    /\ \A p \in Procs : \A q \in Procs \ {p} :
          ( /\ procs[p].state = "running"
            /\ procs[p].hist # <<>>
            /\ procs[q].state = "running" )
          => MayProceed(q)
    /\ \A p \in Procs : \A i \in DOMAIN procs[p].log :
          LET e == procs[p].log[i] IN
          /\ e.call = "users.create"
             => /\ After(p, i, "users.get")
                /\ procs[p].log[i - 1].user = e.user
                /\ ~procs[p].log[i - 1].ok
                /\ ~e.ok => DoneByOther(p, "users.create", e.user, <<>>)
          /\ e.call = "collections.create"
             => After(p, i, "collections.exists")
          /\ (procs[p].req.op = "chmod" /\ e.call = "acls.set")
             => /\ After(p, i, "collections.exists")
                /\ ~e.ok => DoneByOther(p, "collections.remove", "", e.path)

\* Both requests create alice: both were told that she does not exist, both
\* issued users.create, and the backend refused the second.
C16_Witness ==
    /\ \A p \in Procs :
          /\ procs[p].req.op = "create_user"
          /\ procs[p].state = "done"
          /\ Len(procs[p].log) = 2
          /\ ~procs[p].log[1].ok
          /\ procs[p].log[2].call = "users.create"
    /\ \E p \in Procs :
          /\ ~procs[p].log[2].ok
          /\ procs[p].status = 500
          /\ procs[p].cause = "CATALOG_ALREADY_HAS_ITEM_BY_THAT_NAME"

\* Both requests register alice's projectA: both were told that the path does
\* not exist and both issued collections.create on it.
C16_PathRace ==
    \A p \in Procs :
        /\ procs[p].req.op = "service_registration"
        /\ UserCount(procs[p].pre, "alice") > 0
        /\ \E i \in DOMAIN procs[p].log :
              /\ procs[p].log[i].call = "collections.create"
              /\ procs[p].log[i].path = <<ds_zone, "home", "alice", "projectA">>
              /\ procs[p].log[i].ok

\* A chmod on alice's home passed its checks of the user and of the path, and
\* its grant was issued after another request had removed the path.
C16_ChmodRace ==
    \E p \in Procs :
        /\ procs[p].req.op = "chmod"
        /\ procs[p].state = "done"
        /\ procs[p].status = 500
        /\ procs[p].cause = "CAT_UNKNOWN_COLLECTION"
        /\ \E q \in Procs \ {p} : procs[q].req.op = "delete_home"

\* Both requests are service_registration calls for the same user and the
\* same sub-path, neither arrived at a backend that had the user, and both
\* have answered.
BothRegistered ==
    /\ \A p \in Procs :
          /\ procs[p].state = "done"
          /\ procs[p].req.op = "service_registration"
          /\ UserCount(procs[p].pre, procs[p].req.user) = 0
    /\ \A p, q \in Procs : procs[p].req = procs[q].req

\* The user creations the backend carried out for the requests.
Creations ==
    UNION { { <<p, i>> : i \in { j \in DOMAIN procs[p].log :
                                   /\ procs[p].log[j].call = "users.create"
                                   /\ procs[p].log[j].ok } } : p \in Procs }

\* C17: whatever the interleaving of two service_registration calls for the
\* same user that does not exist yet and the same sub-path, at most one of
\* them creates the user, and once both have answered there is exactly one
\* such user, the home directory exists and the user owns it, and the
\* sub-path exists, inherits by default and is owned by the user.
C17_ConcurrentRegistration ==
    BothRegistered =>
        LET q    == procs[CHOOSE p \in Procs : TRUE].req
            c    == [user |-> q.user, path |-> q.path]
            home == HomeSegs(q.user)
            full == FullSegs(c)
        IN
        /\ Cardinality(Creations) <= 1
        /\ UserCount(backend, q.user) = 1
        /\ home \in backend.colls
        /\ Owns(backend, q.user, home)
        /\ full \in backend.colls
        /\ full \in backend.inherit
        /\ Owns(backend, q.user, full)

====
